---- MODULE Spec2Model ----
(***************************************************************************)
(* Model of the todo scheduling / ordering engine of ai-todo-calendar      *)
(* (TodosPage): the in-memory collection `todos`, the `isLoaded` flag, the *)
(* localStorage slot "ai-todo-calendar-todos", the load and save effects   *)
(* and the mutation handlers.                                              *)
(*                                                                         *)
(* Representation                                                          *)
(*   - a JS object is a function from its own keys to values; a key that   *)
(*     is not in the DOMAIN reads as undefined;                            *)
(*   - `undefined` stored under the key "deadline" is Undefined (<<>>);    *)
(*   - a date string "YYYY-MM-DD" is the triple <<YYYY, MM, DD>>;          *)
(*   - a title is a sequence of one-character strings;                     *)
(*   - a drag identifier is a tagged record: "todo-<id>", "unscheduled",   *)
(*     a date string, or some other string;                                *)
(*   - the content of the slot is a tagged record: no item, a string that  *)
(*     is not JSON, or JSON text described by the value it denotes.        *)
(***************************************************************************)
EXTENDS Integers, Sequences, FiniteSets, TLC

VARIABLES todos, isLoaded, slot, pc, now, uncaught, lastOp

vars == <<todos, isLoaded, slot, pc, now, uncaught, lastOp>>

(***************************************************************************)
(* Bounds of the model.                                                     *)
(***************************************************************************)
\* largest collection the add handler is allowed to grow to
MaxTodos == 2
\* number of clock ticks (and so of fresh ids) the model hands out
MaxAdds == 2
\* first value Date.now() returns (abstract milliseconds)
FirstTick == 2030

(***************************************************************************)
(* Values.                                                                  *)
(***************************************************************************)
Undefined == <<>>

Day10 == <<2025, 3, 10>>
Day11 == <<2025, 3, 11>>

\* the days a todo can be dropped on / that occur in stored data
Dates == {Day10, Day11}

TitleA == <<"a">>
TitleB == <<"b">>

(***************************************************************************)
(* JS object helpers.                                                       *)
(***************************************************************************)
\* { ...o, [k]: v }
Put(o, k, v) == [x \in (DOMAIN o) \cup {k} |-> IF x = k THEN v ELSE o[x]]

\* todo.deadline (undefined when the key is absent)
Deadline(t) == IF "deadline" \in DOMAIN t THEN t["deadline"] ELSE Undefined

\* !t.deadline
NoDeadline(t) == Deadline(t) = Undefined

\* array.filter(pred) for a predicate given as the set of elements it accepts
RECURSIVE FilterSeq(_, _)
FilterSeq(s, keep) ==
  IF s = <<>> THEN <<>>
  ELSE IF Head(s) \in keep
       THEN <<Head(s)>> \o FilterSeq(Tail(s), keep)
       ELSE FilterSeq(Tail(s), keep)

Elems(s) == {s[i] : i \in 1..Len(s)}

\* insertion of x into a list sorted by order, after the elements that
\* compare equal (Array.prototype.sort is stable)
RECURSIVE InsertByOrder(_, _)
InsertByOrder(x, s) ==
  IF s = <<>> THEN <<x>>
  ELSE IF x["order"] < Head(s)["order"]
       THEN <<x>> \o s
       ELSE <<Head(s)>> \o InsertByOrder(x, Tail(s))

\* list.sort((a, b) => a.order - b.order)
RECURSIVE SortByOrder(_)
SortByOrder(s) ==
  IF s = <<>> THEN <<>>
  ELSE InsertByOrder(s[Len(s)], SortByOrder(SubSeq(s, 1, Len(s) - 1)))

\* todos.filter((t) => !t.deadline)
Unscheduled(ts) == FilterSeq(ts, {t \in Elems(ts) : NoDeadline(t)})

\* todos.filter((t) => t.deadline === d)
OnDate(ts, d) == FilterSeq(ts, {t \in Elems(ts) : Deadline(t) = d})

\* the todos of one section: !t.deadline for key = undefined,
\* t.deadline === key for a date
Bucket(ts, key) == FilterSeq(ts, {t \in Elems(ts) : Deadline(t) = key})

\* todos.find((t) => t.id === n), n being <<id>> or <<>> (NaN): the set
\* holding the first match, or the empty set
Find(ts, n) ==
  LET hits == {i \in 1..Len(ts) : <<ts[i]["id"]>> = n}
  IN  IF hits = {} THEN {}
      ELSE {ts[CHOOSE i \in hits : \A j \in hits : i <= j]}

\* new Map(list.map((todo, index) => [todo.id, index])) : a later entry
\* with the same key replaces an earlier one
OrderMapHas(list, id) == \E i \in 1..Len(list) : list[i]["id"] = id

OrderMapGet(list, id) ==
  LET hits == {i \in 1..Len(list) : list[i]["id"] = id}
  IN  (CHOOSE i \in hits : \A j \in hits : j <= i) - 1

\* a renumbering that gives the todos outside the list their index in the
\* collection
ApplyOrderMapToAll(ts, list) ==
  [i \in 1..Len(ts) |->
     Put(ts[i], "order", IF OrderMapHas(list, ts[i]["id"])
                         THEN OrderMapGet(list, ts[i]["id"])
                         ELSE i - 1)]

\* todos.map((todo) => orderMap.has(todo.id)
\*                       ? { ...todo, order: orderMap.get(todo.id) } : todo)
ApplyOrderMap(ts, list) ==
  [i \in 1..Len(ts) |->
     IF OrderMapHas(list, ts[i]["id"])
     THEN Put(ts[i], "order", OrderMapGet(list, ts[i]["id"]))
     ELSE ts[i]]

(***************************************************************************)
(* The persistence slot: localStorage["ai-todo-calendar-todos"].            *)
(***************************************************************************)
\* getItem returns null
NoItem == [kind |-> "null"]
\* a string that is not JSON ("" is the empty string)
Text(s) == [kind |-> "text", text |-> s]
\* JSON text, described by the value it denotes
Json(v) == [kind |-> "json", value |-> v]

JArray(es) == [t |-> "array", elems |-> es]
JObject(o) == [t |-> "object", o |-> o]
JNumber(n) == [t |-> "number", n |-> n]
JNull == [t |-> "null"]

\* a serializer that writes no order field
StringifyWithoutOrder(o) ==
  [k \in {x \in DOMAIN o : x # "order" /\ ~(x = "deadline" /\ o[x] = Undefined)}
     |-> o[k]]

\* the own keys JSON.stringify writes: a key whose value is undefined is
\* left out
StringifyObject(o) ==
  [k \in {x \in DOMAIN o : ~(x = "deadline" /\ o[x] = Undefined)} |-> o[k]]

\* JSON.stringify(todos)
JSONstringify(ts) ==
  Json(JArray([i \in 1..Len(ts) |-> JObject(StringifyObject(ts[i]))]))

\* an order pass that overwrites every order with the index
todosWithIndex(e, index) ==
  Put(IF e["t"] = "object" THEN e["o"] ELSE <<>>, "order", index)

\* (todo, index) => ({ ...todo, order: todo.order !== undefined
\*                                      ? todo.order : index })
\* applied to one element of the parsed array; spreading a number gives an
\* object without own keys
todosWithOrder(e, index) ==
  LET o == IF e["t"] = "object" THEN e["o"] ELSE <<>>
  IN  Put(o, "order", IF "order" \in DOMAIN o THEN o["order"] ELSE index)

\* the try block of loadTodos: exc is TRUE when JSON.parse or the map throws,
\* called is TRUE when setTodos is called, with value as argument
loadTry(s) ==
  IF s["kind"] = "null" \/ (s["kind"] = "text" /\ s["text"] = "")
  THEN [exc |-> FALSE, called |-> FALSE, value |-> <<>>]
  ELSE IF s["kind"] = "text"
  THEN [exc |-> TRUE, called |-> FALSE, value |-> <<>>]
  ELSE LET parsed == s["value"]
       IN  IF parsed["t"] # "array"
           THEN [exc |-> TRUE, called |-> FALSE, value |-> <<>>]
           ELSE IF \E i \in 1..Len(parsed["elems"]) :
                      parsed["elems"][i]["t"] = "null"
           THEN [exc |-> TRUE, called |-> FALSE, value |-> <<>>]
           ELSE [exc |-> FALSE, called |-> TRUE,
                 value |-> [i \in 1..Len(parsed["elems"]) |->
                              todosWithOrder(parsed["elems"][i], i - 1)]]

\* a load that merges what it read into the current collection
loadTodosMerge(s, cur) ==
  LET r == loadTry(s)
  IN  [todos |-> IF r["called"] THEN cur \o r["value"] ELSE cur,
       set |-> r["called"],
       logged |-> r["exc"],
       thrown |-> FALSE,
       isLoaded |-> TRUE]

\* a load that calls setIsLoaded(true) at the end of the try block
loadTodosLoadedInTry(s, cur) ==
  LET r == loadTry(s)
  IN  [todos |-> IF r["called"] THEN r["value"] ELSE cur,
       set |-> r["called"],
       logged |-> r["exc"],
       thrown |-> FALSE,
       isLoaded |-> ~r["exc"]]

\* loadTodos: try { ... } catch { console.error } ; setIsLoaded(true)
loadTodos(s, cur) ==
  LET r == loadTry(s)
  IN  [todos |-> IF r["called"] THEN r["value"] ELSE cur,
       set |-> r["called"],
       logged |-> r["exc"],
       thrown |-> FALSE,
       isLoaded |-> TRUE]

\* a save effect without the isLoaded condition
saveEffectUngated(loaded, ts, s) == JSONstringify(ts)

\* the save effect, run with the todos and isLoaded of the render that
\* scheduled it: the content of the slot afterwards
saveEffect(loaded, ts, s) == IF loaded THEN JSONstringify(ts) ELSE s

\* localStorage.setItem(STORAGE_KEY, text) on a storage that is full or not:
\* a full storage throws QuotaExceededError and keeps what it holds
setItem(s, text, full) ==
  IF full THEN [slot |-> s, thrown |-> TRUE]
  ELSE [slot |-> text, thrown |-> FALSE]

\* a save effect that writes until the write goes through
saveEffectRetry(loaded, ts, s, full) ==
  IF loaded
  THEN [slot |-> JSONstringify(ts), logged |-> full, thrown |-> FALSE]
  ELSE [slot |-> s, logged |-> FALSE, thrown |-> FALSE]

\* the save effect with its try / catch: the slot afterwards, whether
\* console.error was called, whether an exception left the effect
saveEffectTry(loaded, ts, s, full) ==
  IF loaded
  THEN LET w == setItem(s, JSONstringify(ts), full)
       IN  [slot |-> w["slot"], logged |-> w["thrown"], thrown |-> FALSE]
  ELSE [slot |-> s, logged |-> FALSE, thrown |-> FALSE]

(***************************************************************************)
(* Strings and dates.                                                       *)
(***************************************************************************)
\* String.prototype.trim on a sequence of characters
RECURSIVE TrimStart(_)
TrimStart(s) ==
  IF s # <<>> /\ Head(s) = " " THEN TrimStart(Tail(s)) ELSE s

RECURSIVE TrimEnd(_)
TrimEnd(s) ==
  IF s # <<>> /\ s[Len(s)] = " "
  THEN TrimEnd(SubSeq(s, 1, Len(s) - 1))
  ELSE s

Trim(s) == TrimEnd(TrimStart(s))

\* a < b for two "YYYY-MM-DD" strings (character order = field order)
DateLess(a, b) ==
  \/ a[1] < b[1]
  \/ a[1] = b[1] /\ a[2] < b[2]
  \/ a[1] = b[1] /\ a[2] = b[2] /\ a[3] < b[3]

DaysInMonth(y, m) ==
  IF m = 2 THEN (IF y % 4 = 0 /\ (y % 100 # 0 \/ y % 400 = 0) THEN 29 ELSE 28)
  ELSE IF m \in {4, 6, 9, 11} THEN 30 ELSE 31

\* format(addDays(d, n), "yyyy-MM-dd")
RECURSIVE addDays(_, _)
addDays(d, n) ==
  IF n = 0 THEN d
  ELSE IF d[3] < DaysInMonth(d[1], d[2]) THEN addDays(<<d[1], d[2], d[3] + 1>>, n - 1)
  ELSE IF d[2] < 12 THEN addDays(<<d[1], d[2] + 1, 1>>, n - 1)
  ELSE addDays(<<d[1] + 1, 1, 1>>, n - 1)

(***************************************************************************)
(* Drag identifiers (active.id / over.id of a DragEndEvent).                *)
(***************************************************************************)
\* `todo-${todo.id}`
TodoIdent(n) == [kind |-> "todo", id |-> n]
\* "unscheduled"
UnscheduledIdent == [kind |-> "unscheduled"]
\* format(date, "yyyy-MM-dd")
DateIdent(d) == [kind |-> "date", date |-> d]
\* a string that is none of these
OtherIdent == [kind |-> "other"]
\* over = null
NoOver == [kind |-> "none"]

\* a parse under which the other identifier begins with the digits 2025
parseIntLeading(ident) ==
  IF ident["kind"] = "todo" THEN <<ident["id"]>>
  ELSE IF ident["kind"] = "date" THEN <<ident["date"][1]>>
  ELSE IF ident["kind"] = "other" THEN <<2025>>
  ELSE <<>>

\* parseInt(ident.replace("todo-", "")): <<n>>, or <<>> for NaN.  parseInt
\* reads the leading digits, so a date string gives its year.
parseIntStripped(ident) ==
  IF ident["kind"] = "todo" THEN <<ident["id"]>>
  ELSE IF ident["kind"] = "date" THEN <<ident["date"][1]>>
  ELSE <<>>

\* list.findIndex((t) => t.id === n), 1-based; 0 stands for -1
findIndex(list, n) ==
  LET hits == {i \in 1..Len(list) : <<list[i]["id"]>> = n}
  IN  IF hits = {} THEN 0 ELSE CHOOSE i \in hits : \A j \in hits : i <= j

\* an exchange of the two positions instead of a move
arraySwap(list, from, to) ==
  [i \in 1..Len(list) |->
     IF i = from THEN list[to] ELSE IF i = to THEN list[from] ELSE list[i]]

\* arrayMove(list, from, to) of @dnd-kit/sortable, 1-based positions
arrayMove(list, from, to) ==
  LET rest == SubSeq(list, 1, from - 1) \o SubSeq(list, from + 1, Len(list))
  IN  SubSeq(rest, 1, to - 1) \o <<list[from]>> \o SubSeq(rest, to, Len(rest))

(***************************************************************************)
(* The handlers, as functions from the current collection to the call of   *)
(* setTodos they make: set is FALSE when the handler returns without       *)
(* calling setTodos.                                                        *)
(***************************************************************************)
\* a return that empties the collection
UnchangedEmptied(ts, b) == [set |-> TRUE, todos |-> <<>>, branch |-> b]

\* a return that numbers the todos by their place in the collection
UnchangedRenumbered(ts, b) ==
  [set |-> TRUE, todos |-> [i \in 1..Len(ts) |-> Put(ts[i], "order", i - 1)],
   branch |-> b]

Unchanged(ts, b) == [set |-> FALSE, todos |-> ts, branch |-> b]
SetTodos(ts, b) == [set |-> TRUE, todos |-> ts, branch |-> b]

\* an add that counts every todo, not the unscheduled ones
addTodoCountAll(ts, inputValue, clock) ==
  IF Trim(inputValue) = <<>> THEN Unchanged(ts, "blank")
  ELSE SetTodos(ts \o <<[id |-> clock, title |-> inputValue,
                         completed |-> FALSE, order |-> Len(ts)]>>, "added")

\* an add that numbers the todos by their count instead of by the clock
addTodoIdByCount(ts, inputValue, clock) ==
  IF Trim(inputValue) = <<>> THEN Unchanged(ts, "blank")
  ELSE SetTodos(ts \o <<[id |-> 2025 + Len(ts), title |-> inputValue,
                         completed |-> FALSE,
                         order |-> Len(Unscheduled(ts))]>>, "added")

addTodo(ts, inputValue, clock) ==
  IF Trim(inputValue) = <<>> THEN Unchanged(ts, "blank")
  ELSE LET unscheduledCount == Len(Unscheduled(ts))
           newTodo == [id |-> clock, title |-> inputValue,
                       completed |-> FALSE, order |-> unscheduledCount]
       IN  SetTodos(ts \o <<newTodo>>, "added")

\* a toggle that can only complete
toggleTodoOn(ts, id) ==
  SetTodos([i \in 1..Len(ts) |->
              IF ts[i]["id"] = id THEN Put(ts[i], "completed", TRUE) ELSE ts[i]],
           "toggled")

toggleTodo(ts, id) ==
  SetTodos([i \in 1..Len(ts) |->
              IF ts[i]["id"] = id
              THEN Put(ts[i], "completed", ~ts[i]["completed"])
              ELSE ts[i]], "toggled")

\* a delete that renumbers nothing
deleteTodoOnly(ts, id) ==
  IF Find(ts, <<id>>) = {} THEN Unchanged(ts, "missing")
  ELSE SetTodos(FilterSeq(ts, {t \in Elems(ts) : t["id"] # id}), "deleted")

deleteTodo(ts, id) ==
  LET found == Find(ts, <<id>>)
  IN  IF found = {} THEN Unchanged(ts, "missing")
      ELSE LET todoToDelete == CHOOSE t \in found : TRUE
               removed == FilterSeq(ts, {t \in Elems(ts) : t["id"] # id})
               sectionDeadline == Deadline(todoToDelete)
               section == IF sectionDeadline = Undefined
                          THEN SortByOrder(Unscheduled(removed))
                          ELSE SortByOrder(OnDate(removed, sectionDeadline))
           IN  SetTodos(ApplyOrderMap(removed, section), "deleted")

\* an edit that makes a new todo, with a new id, of the edited one
editTodoAsNew(ts, id, newTitle) ==
  SetTodos([i \in 1..Len(ts) |->
              IF ts[i]["id"] = id
              THEN Put(Put(ts[i], "title", newTitle), "id", id + Len(ts))
              ELSE ts[i]], "edited")

editTodo(ts, id, newTitle) ==
  SetTodos([i \in 1..Len(ts) |->
              IF ts[i]["id"] = id THEN Put(ts[i], "title", newTitle) ELSE ts[i]],
           "edited")

\* a save that hands the text over as typed
handleSaveUntrimmed(ts, id, editValue) ==
  IF Trim(editValue) # <<>> THEN editTodo(ts, id, editValue)
  ELSE Unchanged(ts, "blank")

\* a save that hands on whatever is left after trimming
handleSaveUnchecked(ts, id, editValue) == editTodo(ts, id, Trim(editValue))

\* handleSave of SortableTodoItem / StaticTodoItem
handleSave(ts, id, editValue) ==
  IF Trim(editValue) # <<>> THEN editTodo(ts, id, Trim(editValue))
  ELSE Unchanged(ts, "blank")

clearUnscheduledTodos(ts) ==
  SetTodos(FilterSeq(ts, {t \in Elems(ts) : Deadline(t) # Undefined}), "cleared")

clearSelectedDayTodos(ts, selectedDate) ==
  SetTodos(FilterSeq(ts, {t \in Elems(ts) : Deadline(t) # selectedDate}), "cleared")

\* format(new Date(currentWeekStart.getTime() + 7 * 24 * 60 * 60 * 1000),
\* "yyyy-MM-dd"): currentWeekStart is a local midnight, and 168 hours later
\* the local time is 00:00 seven days on, or 01:00 that day when the clocks
\* went forward during the week, or 23:00 the day before when they went back
weekEndStr(currentWeekStart, shift) ==
  IF shift = "back" THEN addDays(currentWeekStart, 6)
  ELSE addDays(currentWeekStart, 7)

clearWeekTodos(ts, currentWeekStart, shift) ==
  LET weekEnd == weekEndStr(currentWeekStart, shift)
  IN  SetTodos(FilterSeq(ts, {t \in Elems(ts) :
                 \/ NoDeadline(t)
                 \/ DateLess(Deadline(t), currentWeekStart)
                 \/ ~DateLess(Deadline(t), weekEnd)}), "cleared")

\* a postpone that takes the completed todos along
postponeEveryTodo(ts, today) ==
  LET tomorrow == addDays(today, 1)
      todayTodos == SortByOrder(OnDate(ts, today))
  IN  IF Len(todayTodos) = 0 THEN Unchanged(ts, "nothing")
      ELSE LET tomorrowCount == Len(OnDate(ts, tomorrow))
           IN  SetTodos([i \in 1..Len(ts) |->
                           LET index == findIndex(todayTodos, <<ts[i]["id"]>>)
                           IN  IF index # 0
                               THEN Put(Put(ts[i], "deadline", tomorrow), "order",
                                        tomorrowCount + (index - 1))
                               ELSE ts[i]], "postponed")

\* a postpone that leaves the todos that stay in today as they are
postponeUnnumbered(ts, today) ==
  LET tomorrow == addDays(today, 1)
      uncompletedTodayTodos ==
        SortByOrder(FilterSeq(ts, {t \in Elems(ts) :
                      Deadline(t) = today /\ ~t["completed"]}))
  IN  IF Len(uncompletedTodayTodos) = 0 THEN Unchanged(ts, "nothing")
      ELSE LET tomorrowCount == Len(OnDate(ts, tomorrow))
           IN  SetTodos([i \in 1..Len(ts) |->
                           LET uncompletedIndex ==
                                 findIndex(uncompletedTodayTodos, <<ts[i]["id"]>>)
                           IN  IF uncompletedIndex # 0
                               THEN Put(Put(ts[i], "deadline", tomorrow), "order",
                                        tomorrowCount + (uncompletedIndex - 1))
                               ELSE ts[i]], "postponed")

postponeToTomorrow(ts, today) ==
  LET tomorrow == addDays(today, 1)
      uncompletedTodayTodos ==
        SortByOrder(FilterSeq(ts, {t \in Elems(ts) :
                      Deadline(t) = today /\ ~t["completed"]}))
  IN  IF Len(uncompletedTodayTodos) = 0 THEN Unchanged(ts, "nothing")
      ELSE LET tomorrowCount == Len(OnDate(ts, tomorrow))
               moved == [i \in 1..Len(ts) |->
                           LET uncompletedIndex ==
                                 findIndex(uncompletedTodayTodos, <<ts[i]["id"]>>)
                           IN  IF uncompletedIndex # 0
                               THEN Put(Put(ts[i], "deadline", tomorrow), "order",
                                        tomorrowCount + (uncompletedIndex - 1))
                               ELSE ts[i]]
               remainingTodayTodos == SortByOrder(OnDate(moved, today))
           IN  SetTodos(ApplyOrderMap(moved, remainingTodayTodos), "postponed")

\* a count of the target day that does not leave the dragged todo out
targetDayTodosAll(ts, dropTarget, todoId) ==
  SortByOrder(FilterSeq(ts, {t \in Elems(ts) : Deadline(t) = dropTarget}))

\* todos.filter((t) => t.deadline === dropTarget && t.id !== todoId)
\*      .sort((a, b) => a.order - b.order)
targetDayTodos(ts, dropTarget, todoId) ==
  SortByOrder(FilterSeq(ts, {t \in Elems(ts) :
                Deadline(t) = dropTarget /\ <<t["id"]>> # todoId}))

\* the renumbering of the section a todo was moved out of:
\* sort its remaining todos by order and give each its index
renumberSection(ts, sectionDeadline) ==
  ApplyOrderMap(ts, SortByOrder(Bucket(ts, sectionDeadline)))

\* handleDragEnd(event) with active.id = active and over.id = over
handleDragEnd(ts, active, over) ==
  IF over = NoOver THEN Unchanged(ts, "cancelled")
  ELSE
  LET activeTodoId == parseIntStripped(active)
      overTodoId == parseIntStripped(over)
      activeTodo == Find(ts, activeTodoId)
      overTodo == Find(ts, overTodoId)
      aT == CHOOSE t \in activeTodo : TRUE
      oT == CHOOSE t \in overTodo : TRUE
      sameDay == /\ activeTodo # {}
                 /\ overTodo # {}
                 /\ Deadline(aT) = Deadline(oT)
      todoList == IF ~NoDeadline(aT)
                  THEN SortByOrder(OnDate(ts, Deadline(aT)))
                  ELSE SortByOrder(Unscheduled(ts))
      oldIndex == findIndex(todoList, activeTodoId)
      newIndex == findIndex(todoList, overTodoId)
      \* activeTodo?.deadline
      sourceDeadline == IF activeTodo = {} THEN Undefined ELSE Deadline(aT)
      IsActive(t) == <<t["id"]>> = activeTodoId
  IN
  IF sameDay /\ oldIndex # 0 /\ newIndex # 0 /\ oldIndex # newIndex
  THEN \* same-day reordering
       SetTodos(ApplyOrderMap(ts, arrayMove(todoList, oldIndex, newIndex)),
                "reorder")
  ELSE IF over = UnscheduledIdent
  THEN \* dropped on the unscheduled zone
       LET unscheduledCount == Len(Unscheduled(ts))
           moved == [i \in 1..Len(ts) |->
                       IF IsActive(ts[i])
                       THEN Put(Put(ts[i], "deadline", Undefined),
                                "order", unscheduledCount)
                       ELSE ts[i]]
       IN  IF sourceDeadline # Undefined
           THEN SetTodos(renumberSection(moved, sourceDeadline), "unscheduled")
           ELSE SetTodos(moved, "unscheduled")
  ELSE IF over["kind"] = "date"
  THEN \* dropped on a day of the calendar
       LET dropTarget == over["date"]
           moved == [i \in 1..Len(ts) |->
                       IF IsActive(ts[i])
                       THEN Put(Put(ts[i], "deadline", dropTarget), "order",
                                Len(targetDayTodos(ts, dropTarget, activeTodoId)))
                       ELSE ts[i]]
       IN  IF sourceDeadline # dropTarget
           THEN SetTodos(renumberSection(moved, sourceDeadline), "date")
           ELSE SetTodos(moved, "date")
  ELSE Unchanged(ts, "ignored")

(***************************************************************************)
(* Inputs.                                                                  *)
(***************************************************************************)
Ids(ts) == {ts[i]["id"] : i \in 1..Len(ts)}

\* the todo whose checkbox or title the user acts on: the model lets the
\* user tick and edit the first todo of the collection
TopIds(ts) == {ts[i]["id"] : i \in 1..(IF Len(ts) > 0 THEN 1 ELSE 0)}

\* what the user can type into the add form / an edit field
AddInputs == {<<" ", "a">>, <<" ">>, <<>>}
EditInputs == {<<"b", " ">>, <<" ">>}

\* the droppables: every todo, the unscheduled zone, the day cards
OverIdents(ts) ==
  {TodoIdent(n) : n \in Ids(ts)} \cup {DateIdent(d) : d \in Dates}
    \cup {UnscheduledIdent, OtherIdent, NoOver}

\* an id no todo has
AbsentId == 1

\* the Sunday that starts the week of Day10 and Day11
WeekStart == <<2025, 3, 9>>

\* the Sunday of the week in which the clocks of the United States go back
FallBackSunday == <<2025, 11, 2>>

\* how the local clock can shift during the week that starts on a Sunday,
\* over the time zones the page can run in
WeekShifts(start) ==
  IF start = WeekStart THEN {"none", "forward"}
  ELSE IF start = FallBackSunday THEN {"none", "back"}
  ELSE {"none"}

(***************************************************************************)
(* Stored collections.                                                      *)
(***************************************************************************)
StoredTodo(id, title, completed, order) ==
  [id |-> id, title |-> title, completed |-> completed, order |-> order]

LegacyTodo(id, title, completed) ==
  [id |-> id, title |-> title, completed |-> completed]

\* written by an earlier session of the page
StoredDense ==
  <<JObject(Put(StoredTodo(2025, TitleA, TRUE, 1), "deadline", Day10)),
    JObject(Put(StoredTodo(2026, TitleB, FALSE, 0), "deadline", Day10))>>

\* written by the first version of the page: no order, no deadline used
StoredLegacy ==
  <<JObject(LegacyTodo(2025, TitleA, FALSE)),
    JObject(LegacyTodo(2026, TitleB, TRUE))>>

\* what the slot can hold when the page starts
InitSlots ==
  {NoItem, Text("corrupt-json-data"), Json(JArray(<<>>)),
   Json(JArray(StoredDense)), Json(JArray(StoredLegacy))}

(***************************************************************************)
(* State machine.                                                           *)
(*   pc = "unmounted" : before the first commit's effects have run          *)
(*   pc = "loaded"    : the load effect and the save effect of the first    *)
(*                      commit have run; the re-render they caused has not  *)
(*   pc = "ready"     : quiescent, waiting for the next event               *)
(* lastOp records the last event handled and its arguments.                 *)
(***************************************************************************)
Init ==
  /\ todos = <<>>
  /\ isLoaded = FALSE
  /\ slot \in InitSlots
  /\ pc = "unmounted"
  /\ now = FirstTick
  /\ uncaught = FALSE
  /\ lastOp = [op |-> "init"]

\* First commit: the load effect runs loadTodos (its state updates apply at
\* the next render), then the save effect runs with the todos and isLoaded
\* of the first render.
Mount ==
  /\ pc = "unmounted"
  /\ LET r == loadTodos(slot, todos)
     IN  /\ slot' = saveEffect(isLoaded, todos, slot)
         /\ todos' = r["todos"]
         /\ isLoaded' = r["isLoaded"]
         /\ uncaught' = r["thrown"]
         /\ lastOp' = [op |-> "mount", set |-> r["set"], logged |-> r["logged"]]
  /\ pc' = "loaded"
  /\ UNCHANGED now

\* The render caused by the load effect: isLoaded changed, so the save
\* effect runs again.
Commit ==
  /\ pc = "loaded"
  /\ ~uncaught
  /\ slot' = saveEffect(isLoaded, todos, slot)
  /\ pc' = "ready"
  /\ lastOp' = [op |-> "commit", replaced |-> slot]
  /\ UNCHANGED <<todos, isLoaded, now, uncaught>>

\* a handler whose change is never written to the slot
ApplyWithoutSave(r, op) ==
  /\ pc = "ready"
  /\ ~uncaught
  /\ todos' = r["todos"]
  /\ slot' = slot
  /\ lastOp' = op
  /\ UNCHANGED <<isLoaded, pc, uncaught>>

\* A handler's call of setTodos, the render it causes and the save effect
\* of that render (todos changed).
Apply(r, op) ==
  /\ pc = "ready"
  /\ ~uncaught
  /\ todos' = r["todos"]
  /\ slot' = IF r["set"] THEN saveEffect(isLoaded, r["todos"], slot) ELSE slot
  /\ lastOp' = op
  /\ UNCHANGED <<isLoaded, pc, uncaught>>

\* window "focus": loadTodos again
Focus ==
  /\ pc = "ready"
  /\ ~uncaught
  /\ LET r == loadTodos(slot, todos)
     IN  /\ todos' = r["todos"]
         /\ isLoaded' = r["isLoaded"]
         /\ uncaught' = r["thrown"]
         /\ slot' = IF r["set"]
                    THEN saveEffect(r["isLoaded"], r["todos"], slot)
                    ELSE slot
         /\ lastOp' = [op |-> "focus", set |-> r["set"], logged |-> r["logged"],
                       replaced |-> r["todos"] # todos]
  /\ UNCHANGED <<pc, now>>

\* lastOp of a handler whose arguments are not recorded
Event == [op |-> "event"]

Add ==
  \E v \in AddInputs :
    /\ Len(todos) < MaxTodos
    /\ now < FirstTick + MaxAdds
    /\ LET r == addTodo(todos, v, now)
       IN  /\ Apply(r, Event)
           \* the clock has moved on by the time of the next add
           /\ now' = IF r["set"] THEN now + 1 ELSE now

Toggle ==
  \E id \in TopIds(todos) :
    /\ Apply(toggleTodo(todos, id), Event)
    /\ UNCHANGED now

Delete ==
  \E id \in Ids(todos) \cup {AbsentId} :
    /\ Apply(deleteTodo(todos, id), Event)
    /\ UNCHANGED now

Edit ==
  \E id \in TopIds(todos), v \in EditInputs :
    /\ Apply(handleSave(todos, id, v), Event)
    /\ UNCHANGED now

ClearUnscheduled ==
  /\ Apply(clearUnscheduledTodos(todos), Event)
  /\ UNCHANGED now

ClearSelectedDay ==
  \E selectedDate \in Dates :
    /\ Apply(clearSelectedDayTodos(todos, selectedDate), Event)
    /\ UNCHANGED now

ClearWeek ==
  \E currentWeekStart \in {WeekStart, addDays(WeekStart, 7)} :
    \E shift \in WeekShifts(currentWeekStart) :
      /\ Apply(clearWeekTodos(todos, currentWeekStart, shift), Event)
      /\ UNCHANGED now

Postpone ==
  \E today \in Dates :
    /\ Apply(postponeToTomorrow(todos, today), Event)
    /\ UNCHANGED now

\* a drag of one of the todos, released over one of the droppables (or over
\* nothing)
DragEnd ==
  \E a \in Ids(todos) :
    \E over \in OverIdents(todos) :
      /\ Apply(handleDragEnd(todos, TodoIdent(a), over), Event)
      /\ UNCHANGED now

Next ==
  \/ Mount
  \/ Commit
  \/ Focus
  \/ Add
  \/ Toggle
  \/ Delete
  \/ Edit
  \/ ClearUnscheduled
  \/ ClearSelectedDay
  \/ ClearWeek
  \/ Postpone
  \/ DragEnd

Spec == Init /\ [][Next]_vars

(***************************************************************************)
(* SpecLoad: the load and save effects alone, over a slot that other        *)
(* writers (another tab, an older version of the page, the user) change.    *)
(***************************************************************************)
\* legacy data with deadlines: two buckets, no order field
StoredLegacyDated ==
  <<JObject(Put(LegacyTodo(2025, TitleA, FALSE), "deadline", Day10)),
    JObject(LegacyTodo(2026, TitleB, FALSE)),
    JObject(Put(LegacyTodo(2027, TitleA, TRUE), "deadline", Day10))>>

\* some todos with an order field, some without
StoredMixed ==
  <<JObject(StoredTodo(2025, TitleA, FALSE, 1)),
    JObject(LegacyTodo(2026, TitleB, TRUE)),
    JObject(Put(StoredTodo(2027, TitleA, FALSE, 0), "deadline", Day11))>>

LoadSlots ==
  InitSlots \cup
  {Text(""),
   Json(JNumber(7)), Json(JNull), Json(JObject(LegacyTodo(2025, TitleA, FALSE))),
   Json(JArray(<<JNumber(7)>>)),
   Json(JArray(<<JObject(LegacyTodo(2025, TitleA, FALSE)), JNull>>)),
   Json(JArray(StoredLegacyDated)), Json(JArray(StoredMixed))}

InitLoad ==
  /\ todos = <<>>
  /\ isLoaded = FALSE
  /\ slot \in LoadSlots
  /\ pc = "unmounted"
  /\ now = FirstTick
  /\ uncaught = FALSE
  /\ lastOp = [op |-> "init"]

\* something else replaces the content of the slot
ExternalWrite ==
  /\ pc = "ready"
  /\ slot' \in LoadSlots \ {slot}
  /\ lastOp' = [op |-> "external"]
  /\ UNCHANGED <<todos, isLoaded, pc, now, uncaught>>

NextLoad ==
  \/ Mount
  \/ Commit
  \/ Focus
  \/ ExternalWrite

SpecLoad == InitLoad /\ [][NextLoad]_vars

\* SpecLoad with the scheduling of React: the effects of the first commit
\* do run, and so does the render that a state update asks for
SpecStart == SpecLoad /\ WF_vars(Mount) /\ WF_vars(Commit)

(***************************************************************************)
(* SpecDrop: drags over a loaded page whose collection is any dense         *)
(* collection of DropTodos todos, a drag taken in its two steps; lastOp     *)
(* records each drag's arguments.                                          *)
(***************************************************************************)
\* number of todos in the collections SpecDrop starts from
DropTodos == 3

\* the ids of those todos: the first one reads like the year of Day10
DropIds == {Day10[1] + i : i \in 0..(DropTodos - 1)}

BucketKeys == {Undefined} \cup Dates

\* Invariant I1 for one bucket / for the collection
DenseBucket(ts, key) ==
  LET b == Bucket(ts, key)
  IN  \A n \in 0..(Len(b) - 1) :
        Cardinality({i \in 1..Len(b) : b[i]["order"] = n}) = 1

KeysOf(ts) == {Deadline(ts[i]) : i \in 1..Len(ts)}

Dense(ts) == \A key \in KeysOf(ts) : DenseBucket(ts, key)

\* the arrangements of n todos in a row
Perms(n) == {p \in [1..n -> 1..n] : \A i, j \in 1..n : i # j => p[i] # p[j]}

\* the orders of todos with the deadlines d that stand in their buckets in
\* the sequence of the arrangement p
RankOrders(d, p) ==
  [i \in DOMAIN d |-> Cardinality({j \in DOMAIN d : d[j] = d[i] /\ p[j] < p[i]})]

\* the order fields under which every bucket of todos with the deadlines d
\* has the orders 0..n-1
DenseOrders(d) == {RankOrders(d, p) : p \in Perms(Len(d))}

\* todo i of a collection with the deadlines d and the orders o
DropTodo(d, o, i) ==
  LET t == StoredTodo(Day10[1] + i - 1, TitleA, FALSE, o[i])
  IN  IF d[i] = Undefined THEN t ELSE Put(t, "deadline", d[i])

DropCollections ==
  UNION {{[i \in 1..DropTodos |-> DropTodo(d, o, i)] : o \in DenseOrders(d)} :
           d \in [1..DropTodos -> BucketKeys]}

InitDrop ==
  /\ todos \in DropCollections
  /\ isLoaded = TRUE
  /\ slot = JSONstringify(todos)
  /\ pc = "ready"
  /\ now = FirstTick
  /\ uncaught = FALSE
  /\ lastOp = [op |-> "init"]

\* the pointer goes down on a todo: the drag-and-drop context makes it the
\* active draggable and calls nothing of the page
PickUp ==
  /\ pc = "ready"
  /\ ~uncaught
  /\ lastOp["op"] # "drag"
  /\ \E a \in Ids(todos) : lastOp' = [op |-> "drag", active |-> a]
  /\ UNCHANGED <<todos, isLoaded, slot, pc, now, uncaught>>

\* the pointer is released over one of the droppables (or over nothing):
\* onDragEnd; lastOp records the arguments, the bucket the todo was in and
\* the branch taken
ReleaseOver(overs) ==
  /\ lastOp["op"] = "drag"
  /\ \E over \in overs :
       LET a == lastOp["active"]
           r == handleDragEnd(todos, TodoIdent(a), over)
       IN  Apply(r, [op |-> "drop", active |-> a, over |-> over,
                     source |-> Deadline(CHOOSE t \in Find(todos, <<a>>) : TRUE),
                     branch |-> r["branch"]])
  /\ UNCHANGED now

Release == ReleaseOver(OverIdents(todos))

NextDrop == PickUp \/ Release

SpecDrop == InitDrop /\ [][NextDrop]_vars

(***************************************************************************)
(* SpecReorder: drags of a todo onto a todo, over a loaded page whose       *)
(* ReorderTodos todos all share one bucket.                                 *)
(***************************************************************************)
\* number of todos of the bucket
ReorderTodos == 4

\* the todos of one bucket, in any sequence, with the orders 0..n-1 in any
\* arrangement
ReorderCollections ==
  UNION {{[i \in 1..ReorderTodos |-> DropTodo(d, o, i)] : o \in DenseOrders(d)} :
           d \in {[i \in 1..ReorderTodos |-> key] : key \in BucketKeys}}

InitReorder ==
  /\ todos \in ReorderCollections
  /\ isLoaded = TRUE
  /\ slot = JSONstringify(todos)
  /\ pc = "ready"
  /\ now = FirstTick
  /\ uncaught = FALSE
  /\ lastOp = [op |-> "init"]

\* the pointer is released over one of the todos
ReleaseOnTodo == ReleaseOver({TodoIdent(n) : n \in Ids(todos)})

NextReorder == PickUp \/ ReleaseOnTodo

SpecReorder == InitReorder /\ [][NextReorder]_vars

(***************************************************************************)
(* SpecOps: one call of one handler on a loaded page whose collection is    *)
(* any dense collection of up to OpTodos todos; lastOp records the handler  *)
(* called and its arguments.                                                *)
(***************************************************************************)
\* largest number of todos in the collections SpecOps starts from
OpTodos == 3

\* the deadlines of those todos: the first and the last day of the week of
\* FallBackSunday, and the day after
Day2 == FallBackSunday
Day8 == <<2025, 11, 8>>
Day9 == <<2025, 11, 9>>
OpDates == {Day2, Day8, Day9}
OpKeys == {Undefined} \cup OpDates

\* the dense collections of n todos, completed or not
OpCollections(n) ==
  UNION {{[i \in 1..n |-> Put(DropTodo(d, o, i), "completed", c[i])] :
            o \in DenseOrders(d), c \in [1..n -> BOOLEAN]} :
           d \in [1..n -> OpKeys]}

InitOps ==
  /\ \E n \in 0..OpTodos : todos \in OpCollections(n)
  /\ isLoaded = TRUE
  /\ slot = JSONstringify(todos)
  /\ pc = "ready"
  /\ now = FirstTick
  /\ uncaught = FALSE
  /\ lastOp = [op |-> "init"]

\* no handler has been called yet
Fresh == lastOp["op"] = "init"

AddOp ==
  /\ Fresh
  /\ \E v \in AddInputs :
       LET r == addTodo(todos, v, now)
       IN  /\ Apply(r, [op |-> "add", input |-> v])
           /\ now' = IF r["set"] THEN now + 1 ELSE now

ToggleOp ==
  /\ Fresh
  /\ \E id \in Ids(todos) : Apply(toggleTodo(todos, id), [op |-> "toggle", id |-> id])
  /\ UNCHANGED now

DeleteOp ==
  /\ Fresh
  /\ \E id \in Ids(todos) \cup {AbsentId} :
       Apply(deleteTodo(todos, id), [op |-> "delete", id |-> id])
  /\ UNCHANGED now

EditOp ==
  /\ Fresh
  /\ \E id \in Ids(todos), v \in EditInputs :
       Apply(handleSave(todos, id, v), [op |-> "edit", id |-> id, input |-> v])
  /\ UNCHANGED now

ClearUnscheduledOp ==
  /\ Fresh
  /\ Apply(clearUnscheduledTodos(todos), [op |-> "clearUnscheduled"])
  /\ UNCHANGED now

ClearSelectedDayOp ==
  /\ Fresh
  /\ \E selectedDate \in OpDates :
       Apply(clearSelectedDayTodos(todos, selectedDate),
             [op |-> "clearSelectedDay", selectedDate |-> selectedDate])
  /\ UNCHANGED now

ClearWeekOp ==
  /\ Fresh
  /\ \E currentWeekStart \in {FallBackSunday, Day9} :
       \E shift \in WeekShifts(currentWeekStart) :
         Apply(clearWeekTodos(todos, currentWeekStart, shift),
               [op |-> "clearWeek", currentWeekStart |-> currentWeekStart,
                shift |-> shift])
  /\ UNCHANGED now

PostponeOp ==
  /\ Fresh
  /\ \E today \in OpDates :
       LET r == postponeToTomorrow(todos, today)
       IN  Apply(r, [op |-> "postpone", today |-> today, branch |-> r["branch"]])
  /\ UNCHANGED now

\* the droppables of the page shown for these todos
OpOverIdents(ts) ==
  {TodoIdent(n) : n \in Ids(ts)} \cup {DateIdent(d) : d \in OpDates}
    \cup {UnscheduledIdent, NoOver}

DropOp ==
  /\ Fresh
  /\ \E a \in Ids(todos), over \in OpOverIdents(todos) :
       LET r == handleDragEnd(todos, TodoIdent(a), over)
       IN  Apply(r, [op |-> "drop", active |-> a, over |-> over,
                     source |-> Deadline(CHOOSE t \in Find(todos, <<a>>) : TRUE),
                     branch |-> r["branch"]])
  /\ UNCHANGED now

NextOps ==
  \/ AddOp
  \/ ToggleOp
  \/ DeleteOp
  \/ EditOp
  \/ ClearUnscheduledOp
  \/ ClearSelectedDayOp
  \/ ClearWeekOp
  \/ PostponeOp
  \/ DropOp

SpecOps == InitOps /\ [][NextOps]_vars

(***************************************************************************)
(* SpecWrite: a loaded page over a storage that can be full at any write:   *)
(* every run of the save effect either stores or throws in setItem.         *)
(* lastOp records whether the handler called setTodos, whether the write    *)
(* that followed failed, and the collection the handler produced.           *)
(***************************************************************************)
\* number of clock ticks SpecWrite hands out
WriteAdds == 2

\* A handler's call of setTodos, the render it causes and the save effect
\* of that render, over a storage that is full or not.
ApplyTry(r, name) ==
  /\ pc = "ready"
  /\ ~uncaught
  /\ \E full \in (IF r["set"] THEN BOOLEAN ELSE {FALSE}) :
       LET w == IF r["set"] THEN saveEffectTry(isLoaded, r["todos"], slot, full)
                ELSE [slot |-> slot, logged |-> FALSE, thrown |-> FALSE]
       IN  /\ todos' = r["todos"]
           /\ slot' = w["slot"]
           /\ uncaught' = w["thrown"]
           /\ lastOp' = [op |-> name, set |-> r["set"], failed |-> full,
                         logged |-> w["logged"], result |-> r["todos"]]
  /\ UNCHANGED <<isLoaded, pc>>

InitWrite ==
  /\ todos = <<>>
  /\ isLoaded = TRUE
  /\ slot = JSONstringify(todos)
  /\ pc = "ready"
  /\ now = FirstTick
  /\ uncaught = FALSE
  /\ lastOp = [op |-> "init"]

AddTry ==
  \E v \in AddInputs :
    /\ now < FirstTick + WriteAdds
    /\ LET r == addTodo(todos, v, now)
       IN  /\ ApplyTry(r, "add")
           /\ now' = IF r["set"] THEN now + 1 ELSE now

ToggleTry ==
  \E id \in Ids(todos) :
    /\ ApplyTry(toggleTodo(todos, id), "toggle")
    /\ UNCHANGED now

DeleteTry ==
  \E id \in Ids(todos) \cup {AbsentId} :
    /\ ApplyTry(deleteTodo(todos, id), "delete")
    /\ UNCHANGED now

\* Clear Week, in a week without a clock shift
ClearWeekTry ==
  /\ ApplyTry(clearWeekTodos(todos, WeekStart, "none"), "clearWeek")
  /\ UNCHANGED now

\* a key typed into the add form: setInputValue, a render in which neither
\* todos nor isLoaded has changed, so the save effect does not run
TypeInput ==
  /\ pc = "ready"
  /\ ~uncaught
  /\ lastOp' = [op |-> "type", set |-> FALSE, failed |-> FALSE,
                logged |-> FALSE, result |-> todos]
  /\ UNCHANGED <<todos, isLoaded, slot, pc, now, uncaught>>

\* window "focus" over that storage
FocusTry ==
  /\ pc = "ready"
  /\ ~uncaught
  /\ LET r == loadTodos(slot, todos)
     IN  \E full \in (IF r["set"] THEN BOOLEAN ELSE {FALSE}) :
           LET w == IF r["set"]
                    THEN saveEffectTry(r["isLoaded"], r["todos"], slot, full)
                    ELSE [slot |-> slot, logged |-> FALSE, thrown |-> FALSE]
           IN  /\ todos' = r["todos"]
               /\ isLoaded' = r["isLoaded"]
               /\ slot' = w["slot"]
               /\ uncaught' = r["thrown"] \/ w["thrown"]
               /\ lastOp' = [op |-> "focus", set |-> r["set"], failed |-> full,
                             logged |-> w["logged"], result |-> r["todos"]]
  /\ UNCHANGED <<pc, now>>

NextWrite ==
  \/ AddTry
  \/ ToggleTry
  \/ DeleteTry
  \/ ClearWeekTry
  \/ TypeInput
  \/ FocusTry

SpecWrite == InitWrite /\ [][NextWrite]_vars

(***************************************************************************)
(* SpecClock: a loaded page under a clock that moves on by itself, any      *)
(* number of handler calls falling into one tick.  In this specification    *)
(* lastOp also carries the tick of the latest add (0 when there was none)   *)
(* and whether two adds have fallen into the same tick so far.              *)
(***************************************************************************)
\* number of times the clock moves on
ClockTicks == 2
\* largest collection the add handler is allowed to grow to
ClockTodos == 2

\* the collection the page holds after loading StoredDense
LoadedDense == loadTry(Json(JArray(StoredDense)))["value"]

InitClock ==
  /\ todos \in {<<>>, LoadedDense}
  /\ isLoaded = TRUE
  /\ slot = JSONstringify(todos)
  /\ pc = "ready"
  /\ now = FirstTick
  /\ uncaught = FALSE
  /\ lastOp = [op |-> "init", lastAdd |-> 0, sameTick |-> FALSE]

\* lastOp after an event that adds nothing
Stamp ==
  [op |-> "event", lastAdd |-> lastOp["lastAdd"], sameTick |-> lastOp["sameTick"]]

\* Date.now() has moved on to the next value
Tick ==
  /\ now < FirstTick + ClockTicks
  /\ now' = now + 1
  /\ lastOp' = Stamp
  /\ UNCHANGED <<todos, isLoaded, slot, pc, uncaught>>

AddAt ==
  \E v \in AddInputs :
    /\ Len(todos) < ClockTodos
    /\ LET r == addTodo(todos, v, now)
       IN  Apply(r, IF r["set"]
                    THEN [op |-> "add", lastAdd |-> now,
                          sameTick |-> lastOp["sameTick"] \/ lastOp["lastAdd"] = now]
                    ELSE Stamp)
    /\ UNCHANGED now

DeleteAt ==
  \E id \in Ids(todos) :
    /\ Apply(deleteTodo(todos, id), Stamp)
    /\ UNCHANGED now

\* a drag released over the unscheduled zone or a day card
DragToZone ==
  \E a \in Ids(todos), over \in {UnscheduledIdent, DateIdent(Day10)} :
    /\ Apply(handleDragEnd(todos, TodoIdent(a), over), Stamp)
    /\ UNCHANGED now

FocusAt ==
  /\ Apply(loadTodos(slot, todos), Stamp)
  /\ UNCHANGED now

NextClock ==
  \/ Tick
  \/ AddAt
  \/ DeleteAt
  \/ DragToZone
  \/ FocusAt

SpecClock == InitClock /\ [][NextClock]_vars

(***************************************************************************)
(* SpecTitle: the page started on an empty store, and then any sequence of  *)
(* texts submitted to the add form and to the edit field of a todo; lastOp  *)
(* records the text and whether the handler called setTodos.                *)
(***************************************************************************)
\* number of todos the add handler is allowed to add
TitleAdds == 2

\* what the user can type: texts with a blank before or after, blanks only,
\* nothing
TitleInputs ==
  {<<" ", "a">>, <<"b", " ">>, <<"a", " ", "b">>, <<" ">>, <<" ", " ">>, <<>>}

InitTitle ==
  /\ todos = <<>>
  /\ isLoaded = FALSE
  /\ slot = NoItem
  /\ pc = "unmounted"
  /\ now = FirstTick
  /\ uncaught = FALSE
  /\ lastOp = [op |-> "init"]

AddText ==
  \E v \in TitleInputs :
    /\ now < FirstTick + TitleAdds
    /\ LET r == addTodo(todos, v, now)
       IN  /\ Apply(r, [op |-> "add", input |-> v, set |-> r["set"]])
           /\ now' = IF r["set"] THEN now + 1 ELSE now

EditText ==
  \E id \in Ids(todos), v \in TitleInputs :
    /\ LET r == handleSave(todos, id, v)
       IN  Apply(r, [op |-> "edit", input |-> v, set |-> r["set"]])
    /\ UNCHANGED now

NextTitle ==
  \/ Mount
  \/ Commit
  \/ Focus
  \/ AddText
  \/ EditText

SpecTitle == InitTitle /\ [][NextTitle]_vars

(***************************************************************************)
(* SpecTabs: two tabs of the page over one slot.  In this specification     *)
(* todos, isLoaded and pc are functions on Tabs, each tab having its own    *)
(* React state; the slot and the clock are shared.  lastOp carries, next to *)
(* the last event and its tab,                                              *)
(*   expected    : the stored collection with the mutations of both tabs    *)
(*                 applied in the order they were performed,                *)
(*   stale[t]    : the other tab has written since tab t last loaded,       *)
(*   disciplined : no tab has performed a mutation while stale.             *)
(***************************************************************************)
Tabs == {1, 2}

\* number of todos the tabs are allowed to add
TabAdds == 1

\* the tab that is not t
OtherTab(t) == CHOOSE u \in Tabs : u # t

InitTabs ==
  /\ todos = [t \in Tabs |-> <<>>]
  /\ isLoaded = [t \in Tabs |-> FALSE]
  /\ slot = Json(JArray(StoredDense))
  /\ pc = [t \in Tabs |-> "unmounted"]
  /\ now = FirstTick
  /\ uncaught = FALSE
  /\ lastOp = [op |-> "init", tab |-> 0,
               expected |-> loadTry(slot)["value"],
               stale |-> [t \in Tabs |-> FALSE],
               disciplined |-> TRUE]

\* stale after tab t has loaded / after tab t has written
StaleAfterLoad(st, t) == [st EXCEPT ![t] = FALSE]
StaleAfterWrite(st, t) == [st EXCEPT ![OtherTab(t)] = TRUE]

\* the first commit of tab t: the load effect, and the save effect with the
\* isLoaded of the first render
TabMount(t) ==
  /\ pc[t] = "unmounted"
  /\ LET r == loadTodos(slot, todos[t])
     IN  /\ slot' = saveEffect(isLoaded[t], todos[t], slot)
         /\ todos' = [todos EXCEPT ![t] = r["todos"]]
         /\ isLoaded' = [isLoaded EXCEPT ![t] = r["isLoaded"]]
  /\ pc' = [pc EXCEPT ![t] = "loaded"]
  /\ lastOp' = [lastOp EXCEPT !["op"] = "mount", !["tab"] = t,
                              !["stale"] = StaleAfterLoad(@, t)]
  /\ UNCHANGED <<now, uncaught>>

\* the render of tab t that the load effect caused: its save effect writes
TabCommit(t) ==
  /\ pc[t] = "loaded"
  /\ slot' = saveEffect(isLoaded[t], todos[t], slot)
  /\ pc' = [pc EXCEPT ![t] = "ready"]
  /\ lastOp' = [lastOp EXCEPT !["op"] = "commit", !["tab"] = t,
                              !["stale"] = StaleAfterWrite(@, t)]
  /\ UNCHANGED <<todos, isLoaded, now, uncaught>>

\* window "focus" in tab t: loadTodos, the render and its save effect
TabFocus(t) ==
  /\ pc[t] = "ready"
  /\ LET r == loadTodos(slot, todos[t])
     IN  /\ todos' = [todos EXCEPT ![t] = r["todos"]]
         /\ isLoaded' = [isLoaded EXCEPT ![t] = r["isLoaded"]]
         /\ slot' = IF r["set"]
                    THEN saveEffect(r["isLoaded"], r["todos"], slot)
                    ELSE slot
         /\ lastOp' = [lastOp EXCEPT
                         !["op"] = "focus", !["tab"] = t,
                         !["stale"] = IF r["set"]
                                      THEN StaleAfterWrite(StaleAfterLoad(@, t), t)
                                      ELSE StaleAfterLoad(@, t)]
  /\ UNCHANGED <<pc, now, uncaught>>

\* a handler of tab t that turns its collection into r and the expected one
\* into e
TabApply(t, r, e, name) ==
  /\ pc[t] = "ready"
  /\ todos' = [todos EXCEPT ![t] = r["todos"]]
  /\ slot' = IF r["set"] THEN saveEffect(isLoaded[t], r["todos"], slot) ELSE slot
  /\ lastOp' = [op |-> name, tab |-> t,
                expected |-> IF r["set"] THEN e["todos"] ELSE lastOp["expected"],
                stale |-> IF r["set"] THEN StaleAfterWrite(lastOp["stale"], t)
                          ELSE lastOp["stale"],
                disciplined |-> lastOp["disciplined"]
                                  /\ ~(r["set"] /\ lastOp["stale"][t])]
  /\ UNCHANGED <<isLoaded, pc, uncaught>>

TabAdd(t) ==
  /\ now < FirstTick + TabAdds
  /\ TabApply(t, addTodo(todos[t], TitleA, now),
                 addTodo(lastOp["expected"], TitleA, now), "add")
  /\ now' = now + 1

TabToggle(t) ==
  \E id \in TopIds(todos[t]) :
    /\ TabApply(t, toggleTodo(todos[t], id),
                   toggleTodo(lastOp["expected"], id), "toggle")
    /\ UNCHANGED now

TabDelete(t) ==
  \E id \in Ids(todos[t]) :
    /\ TabApply(t, deleteTodo(todos[t], id),
                   deleteTodo(lastOp["expected"], id), "delete")
    /\ UNCHANGED now

NextTabs ==
  \E t \in Tabs :
    \/ TabMount(t)
    \/ TabCommit(t)
    \/ TabFocus(t)
    \/ TabAdd(t)
    \/ TabToggle(t)
    \/ TabDelete(t)

SpecTabs == InitTabs /\ [][NextTabs]_vars

(***************************************************************************)
(* Vocabulary of the properties.                                            *)
(***************************************************************************)
\* the slot holds a JSON array whose elements are all objects
HoldsArray(s) ==
  /\ s["kind"] = "json"
  /\ s["value"]["t"] = "array"
  /\ \A i \in 1..Len(s["value"]["elems"]) : s["value"]["elems"][i]["t"] = "object"

\* the objects of that array
Held(s) == [i \in 1..Len(s["value"]["elems"]) |-> s["value"]["elems"][i]["o"]]

\* an object with the fields every version of the page writes
IsTodoObject(o) == {"id", "title", "completed"} \subseteq DOMAIN o

\* the slot holds an array of todo objects
IsTodoArray(s) ==
  HoldsArray(s) /\ \A i \in 1..Len(Held(s)) : IsTodoObject(Held(s)[i])

SameField(a, b, k) ==
  /\ (k \in DOMAIN a) <=> (k \in DOMAIN b)
  /\ k \in DOMAIN a => a[k] = b[k]

\* same id, title, completed, deadline-or-absent and order
SameTodo(a, b) ==
  /\ \A k \in {"id", "title", "completed", "order"} : SameField(a, b, k)
  /\ Deadline(a) = Deadline(b)

\* same todos in the same sequence
SameTodos(x, y) ==
  /\ Len(x) = Len(y)
  /\ \A i \in 1..Len(x) : SameTodo(x[i], y[i])

\* the todo with a given id (ids are distinct where this is used)
TodoById(ts, id) == CHOOSE t \in Elems(ts) : t["id"] = id

\* a step that ran loadTodos
LoadStep == pc = "unmounted" \/ lastOp'["op"] = "focus"

\* the bucket key a drop-zone identifier names
IsBucketKey(over) == over["kind"] \in {"unscheduled", "date"}
DropKey(over) == IF over["kind"] = "date" THEN over["date"] ELSE Undefined

(***************************************************************************)
(* C1  Dense ordering (I1/P1): starting from an empty or dense collection,  *)
(* after any sequence of add, delete and drag-drop operations the order     *)
(* values of every bucket are exactly 0..n-1.                                *)
(* Violated: a todo dropped on the zone of the bucket it is already in gets *)
(* the bucket's size (unscheduled) or size - 1 (date) as order and nothing  *)
(* is renumbered.                                                           *)
(***************************************************************************)
DenseOrdering == pc = "ready" => Dense(todos)

(***************************************************************************)
(* C2  Save gating: the step that runs the first commit's effects (the      *)
(* initial load) leaves the slot as it was, and the first write, made by    *)
(* the render that follows, stores the loaded collection.                   *)
(***************************************************************************)
SaveGating ==
  [][/\ ~isLoaded => slot' = slot
     /\ pc = "loaded" => HoldsArray(slot') /\ SameTodos(Held(slot'), todos)]_vars

\* the page has started on legacy data and has made its first write, which
\* holds the two loaded todos
SaveGatingWitness ==
  /\ pc = "ready"
  /\ lastOp["op"] = "commit"
  /\ Len(todos) = 2
  /\ HoldsArray(slot)
  /\ SameTodos(Held(slot), todos)

(***************************************************************************)
(* C3  Corrupt-input safety (P4): a load on a slot that holds text that is  *)
(* not JSON, or JSON that is not an array of todo objects, lets no          *)
(* exception escape and hands no todo to the store.                          *)
(* Violated: the array [7] loads as one todo { order: 0 }.                  *)
(***************************************************************************)
CorruptInputSafety ==
  [][(LoadStep /\ slot # NoItem /\ ~IsTodoArray(slot))
       => ~uncaught' /\ (lastOp'["set"] => todos' = <<>>)]_vars

(***************************************************************************)
(* C4  Legacy load preserves I1: after a load of stored todos that all lack *)
(* the order field every bucket's orders are exactly 0..n-1.                *)
(* Violated: the order given is the index in the whole array, whatever the  *)
(* bucket.                                                                  *)
(***************************************************************************)
LegacyLoadDense ==
  [][(/\ LoadStep
      /\ IsTodoArray(slot)
      /\ \A i \in 1..Len(Held(slot)) : "order" \notin DOMAIN Held(slot)[i])
       => Dense(todos')]_vars

(***************************************************************************)
(* C5  Legacy order assignment: a load gives every stored todo without an   *)
(* order field its index in the stored array as order, and keeps the order  *)
(* of the others and every other field of every todo.                       *)
(***************************************************************************)
LegacyOrderAssignment ==
  [][(LoadStep /\ IsTodoArray(slot))
       => /\ Len(todos') = Len(Held(slot))
          /\ \A i \in 1..Len(Held(slot)) :
               LET o == Held(slot)[i]
                   t == todos'[i]
               IN  /\ DOMAIN t = (DOMAIN o) \cup {"order"}
                   /\ t["order"] = IF "order" \in DOMAIN o THEN o["order"] ELSE i - 1
                   /\ \A k \in (DOMAIN o) \ {"order"} : t[k] = o[k]]_vars

\* the initial load of StoredMixed has run: the first todo kept its order 1,
\* the second got its index 1, the third kept its order 0 and its deadline
LegacyOrderAssignmentWitness ==
  /\ pc = "loaded"
  /\ slot = Json(JArray(StoredMixed))
  /\ Len(todos) = 3
  /\ todos[1]["order"] = 1
  /\ todos[2]["order"] = 1
  /\ todos[3]["order"] = 0
  /\ Deadline(todos[3]) = Day11

RoundTrip ==
  (pc = "ready" /\ \A i \in 1..Len(todos) : "order" \in DOMAIN todos[i])
    => LET r == loadTodos(JSONstringify(todos), <<>>)
       IN  r["set"] /\ ~r["thrown"] /\ SameTodos(r["todos"], todos)

\* a focus reload has read back what the save effect wrote: two todos, the
\* first with an order that is not its index, one of them unscheduled
RoundTripWitness ==
  /\ pc = "ready"
  /\ lastOp["op"] = "focus"
  /\ lastOp["set"]
  /\ Len(todos) = 2
  /\ todos[1]["order"] = 1
  /\ \E i \in 1..2 : NoDeadline(todos[i])
  /\ slot = JSONstringify(todos)

(***************************************************************************)
(* C8  Reload on focus: every focus event runs the load again, and          *)
(* afterwards the in-memory collection is the collection the slot holds at  *)
(* that moment (the empty collection when the slot holds none), whatever    *)
(* the in-memory collection was.                                            *)
(* Violated: when the slot is missing or does not hold an array nothing is  *)
(* handed to the store and the in-memory collection stays.                  *)
(***************************************************************************)
\* the slot holds no collection at all: no item, text that is not JSON, or
\* JSON that is not an array
HoldsNothing(s) ==
  \/ s = NoItem
  \/ s["kind"] = "text"
  \/ s["kind"] = "json" /\ s["value"]["t"] # "array"

\* ts is the collection of todo objects the slot holds, as a load reads it:
\* same todos in the same sequence, a todo stored without order carrying
\* its index
EqualsHeld(ts, s) ==
  /\ Len(ts) = Len(Held(s))
  /\ \A i \in 1..Len(ts) :
       /\ \A k \in {"id", "title", "completed"} : SameField(ts[i], Held(s)[i], k)
       /\ Deadline(ts[i]) = Deadline(Held(s)[i])
       /\ "order" \in DOMAIN ts[i]
       /\ ts[i]["order"] = IF "order" \in DOMAIN Held(s)[i]
                           THEN Held(s)[i]["order"] ELSE i - 1

PostMoveExclusivity ==
  [][(/\ lastOp'["op"] = "drop"
      /\ IsBucketKey(lastOp'["over"])
      /\ DropKey(lastOp'["over"]) # lastOp'["source"])
       => LET X == lastOp'["active"]
              K == DropKey(lastOp'["over"])
              prior == lastOp'["source"]
              rest == {t \in Elems(todos) : Deadline(t) = prior /\ t["id"] # X}
          IN  /\ Deadline(TodoById(todos', X)) = K
              /\ \A t \in rest : Deadline(TodoById(todos', t["id"])) = prior
              /\ {TodoById(todos', t["id"])["order"] : t \in rest}
                   = 0..(Cardinality(rest) - 1)
              /\ \A a, b \in rest :
                   a["order"] < b["order"]
                     => TodoById(todos', a["id"])["order"]
                          < TodoById(todos', b["id"])["order"]]_vars

(***************************************************************************)
(* C10  Append on move: for a drop handled as a move to bucket key K the    *)
(* moved todo's new order is the number of todos in K at the time of the    *)
(* drop, every todo already in K keeps its order, and the moved todo is     *)
(* last in K.                                                               *)
(* Violated: the count for a date leaves the moved todo out, so a todo      *)
(* dropped on its own date gets the number of the other todos of that date. *)
(***************************************************************************)
\* the todos of bucket key in ts, as a set
InBucket(ts, key) == {t \in Elems(ts) : Deadline(t) = key}

\* the step handled a drop as a move to a bucket
MoveStep == lastOp'["op"] = "drop" /\ lastOp'["branch"] \in {"unscheduled", "date"}

\* every todo of K other than X has the order it had
OthersKeepOrder(X, K) ==
  \A t \in InBucket(todos, K) :
    t["id"] # X => TodoById(todos', t["id"])["order"] = t["order"]

\* X's order is above that of every other todo of K
LastInBucket(X, K) ==
  \A t \in InBucket(todos', K) :
    t["id"] # X => t["order"] < TodoById(todos', X)["order"]

IndexInBucket(ts, t) ==
  Cardinality({u \in InBucket(ts, Deadline(t)) : u["order"] < t["order"]})

\* the index a stable move of the item at index i to index j gives the item
\* at index p
MovedIndex(p, i, j) ==
  IF p = i THEN j
  ELSE IF i < j /\ i < p /\ p <= j THEN p - 1
  ELSE IF j < i /\ j <= p /\ p < i THEN p + 1
  ELSE p

ReorderWithinBucket ==
  [][(/\ lastOp'["op"] = "drop"
      /\ lastOp'["over"]["kind"] = "todo"
      /\ lastOp'["over"]["id"] # lastOp'["active"]
      /\ Deadline(TodoById(todos, lastOp'["over"]["id"])) = lastOp'["source"])
       => LET A == TodoById(todos, lastOp'["active"])
              B == TodoById(todos, lastOp'["over"]["id"])
          IN  \A t \in InBucket(todos, Deadline(A)) :
                TodoById(todos', t["id"])["order"] =
                  MovedIndex(IndexInBucket(todos, t),
                             IndexInBucket(todos, A), IndexInBucket(todos, B))]_vars

\* in a bucket of four the dragged todo has been put at the first place and
\* the todo it was dropped on, which held that place, has order 1
ReorderWithinBucketWitness ==
  /\ lastOp["op"] = "drop"
  /\ lastOp["branch"] = "reorder"
  /\ Len(Bucket(todos, lastOp["source"])) = 4
  /\ Dense(todos)
  /\ TodoById(todos, lastOp["active"])["order"] = 0
  /\ TodoById(todos, lastOp["over"]["id"])["order"] = 1

CancelledAndSelfDrops ==
  [][(/\ lastOp'["op"] = "drop"
      /\ \/ lastOp'["over"] = NoOver
         \/ lastOp'["over"] = TodoIdent(lastOp'["active"]))
       => todos' = todos]_vars

\* a todo that shares its bucket with another one has been dropped onto
\* itself
CancelledAndSelfDropsWitness ==
  /\ lastOp["op"] = "drop"
  /\ lastOp["over"] = TodoIdent(lastOp["active"])
  /\ Len(Bucket(todos, lastOp["source"])) >= 2

(***************************************************************************)
(* C14  add: when the trimmed title is empty the collection is unchanged;   *)
(* otherwise exactly one todo is appended, not completed, without deadline, *)
(* its order the number of unscheduled todos before the add, and every      *)
(* existing todo is unchanged.                                              *)
(***************************************************************************)
AddAppends ==
  [][lastOp'["op"] = "add"
       => IF Trim(lastOp'["input"]) = <<>>
          THEN todos' = todos
          ELSE /\ Len(todos') = Len(todos) + 1
               /\ SubSeq(todos', 1, Len(todos)) = todos
               /\ LET new == todos'[Len(todos')]
                  IN  /\ new["completed"] = FALSE
                      /\ NoDeadline(new)
                      /\ new["order"] = Cardinality(InBucket(todos, Undefined))]_vars

\* a todo has been added to the empty store: one todo, order 0
AddAppendsWitness ==
  /\ lastOp["op"] = "add"
  /\ Len(todos) = 1
  /\ todos[1]["order"] = 0
  /\ todos[1]["completed"] = FALSE
  /\ NoDeadline(todos[1])

(***************************************************************************)
(* C15  delete: delete(id) removes the todo with that id, gives the other   *)
(* todos of its bucket the orders 0..n-2 in their previous relative order   *)
(* and leaves the todos of all other buckets as they were; when no todo     *)
(* has that id the collection is unchanged.                                 *)
(***************************************************************************)
\* the todos of set b have in todos' the orders 0..|b|-1, in the relative
\* order they had
Renumbered(b) ==
  /\ {TodoById(todos', t["id"])["order"] : t \in b} = 0..(Cardinality(b) - 1)
  /\ \A x, y \in b :
       x["order"] < y["order"]
         => TodoById(todos', x["id"])["order"] < TodoById(todos', y["id"])["order"]

\* t is in todos' what it was in todos, but for its order
SameButOrder(t) ==
  /\ t["id"] \in Ids(todos')
  /\ LET u == TodoById(todos', t["id"])
     IN  /\ \A k \in {"id", "title", "completed"} : u[k] = t[k]
         /\ Deadline(u) = Deadline(t)

DeleteRenumbers ==
  [][lastOp'["op"] = "delete"
       => IF lastOp'["id"] \notin Ids(todos)
          THEN todos' = todos
          ELSE LET D == TodoById(todos, lastOp'["id"])
                   rest == InBucket(todos, Deadline(D)) \ {D}
               IN  /\ Len(todos') = Len(todos) - 1
                   /\ Ids(todos') = Ids(todos) \ {D["id"]}
                   /\ \A t \in Elems(todos) \ {D} : SameButOrder(t)
                   /\ Renumbered(rest)
                   /\ \A t \in Elems(todos) :
                        Deadline(t) # Deadline(D) => t \in Elems(todos')]_vars

\* the second of three unscheduled todos has been deleted: the two others
\* have the orders 0 and 1
DeleteRenumbersWitness ==
  /\ lastOp["op"] = "delete"
  /\ lastOp["id"] = Day10[1] + 1
  /\ Len(todos) = 2
  /\ \A i \in 1..2 : NoDeadline(todos[i])
  /\ {todos[i]["order"] : i \in 1..2} = {0, 1}

(***************************************************************************)
(* C16  postpone: postponing from a date to the next day moves exactly the  *)
(* incomplete todos of that date, giving them the orders k, k+1, ... (k the *)
(* size of the next day's bucket before) in their previous relative order;  *)
(* the completed todos of the date stay and get the orders 0..c-1 in their  *)
(* relative order; todos of all other buckets are unchanged; when the date  *)
(* has no incomplete todo the collection is unchanged.                      *)
(***************************************************************************)
\* the todos of set b have in todos' the orders k..k+|b|-1, in the relative
\* order they had
RenumberedFrom(b, k) ==
  /\ {TodoById(todos', t["id"])["order"] : t \in b} = k..(k + Cardinality(b) - 1)
  /\ \A x, y \in b :
       x["order"] < y["order"]
         => TodoById(todos', x["id"])["order"] < TodoById(todos', y["id"])["order"]

PostponeMoves ==
  [][lastOp'["op"] = "postpone"
       => LET fromDate == lastOp'["today"]
              toDate == addDays(fromDate, 1)
              incomplete == {t \in InBucket(todos, fromDate) : ~t["completed"]}
              completed == {t \in InBucket(todos, fromDate) : t["completed"]}
              k == Cardinality(InBucket(todos, toDate))
          IN  IF incomplete = {} THEN todos' = todos
              ELSE /\ Len(todos') = Len(todos)
                   /\ Ids(todos') = Ids(todos)
                   /\ \A t \in incomplete :
                        LET u == TodoById(todos', t["id"])
                        IN  /\ Deadline(u) = toDate
                            /\ \A f \in {"id", "title", "completed"} : u[f] = t[f]
                   /\ RenumberedFrom(incomplete, k)
                   /\ \A t \in completed : SameButOrder(t)
                   /\ RenumberedFrom(completed, 0)
                   /\ \A t \in Elems(todos) :
                        Deadline(t) # fromDate => t \in Elems(todos')]_vars

\* Day8 held an incomplete and a completed todo and Day9 one todo: the
\* incomplete one is now on Day9 with order 1, the completed one is alone
\* on Day8 with order 0
PostponeMovesWitness ==
  /\ lastOp["op"] = "postpone"
  /\ lastOp["today"] = Day8
  /\ Len(todos) = 3
  /\ \E i, j, l \in 1..3 :
       /\ Deadline(todos[i]) = Day8 /\ todos[i]["completed"] /\ todos[i]["order"] = 0
       /\ Deadline(todos[j]) = Day9 /\ ~todos[j]["completed"] /\ todos[j]["order"] = 1
       /\ Deadline(todos[l]) = Day9 /\ todos[l]["order"] = 0

(***************************************************************************)
(* C17  bulkClear: each bulk clear removes exactly the todos it names (the  *)
(* unscheduled ones; those of the selected date; those whose deadline is in *)
(* the current week, from the week start inclusive to the week start plus   *)
(* seven days exclusive) and leaves every other todo as it was.             *)
(* Violated: the week end is the week start plus 168 hours read in local    *)
(* time, which is the sixth day after the start in a week whose clocks go   *)
(* back; the todos of that day are kept.                                    *)
(***************************************************************************)
\* todos' is todos without the todos of set gone
Removed(gone) == todos' = FilterSeq(todos, Elems(todos) \ gone)

BulkClearFrame ==
  [][/\ lastOp'["op"] = "clearUnscheduled" => Removed(InBucket(todos, Undefined))
     /\ lastOp'["op"] = "clearSelectedDay"
          => Removed(InBucket(todos, lastOp'["selectedDate"]))
     /\ lastOp'["op"] = "clearWeek"
          => LET start == lastOp'["currentWeekStart"]
             IN  Removed({t \in Elems(todos) :
                            /\ ~NoDeadline(t)
                            /\ ~DateLess(Deadline(t), start)
                            /\ DateLess(Deadline(t), addDays(start, 7))})]_vars

(***************************************************************************)
(* C18  toggle: toggle(id) flips completed of the todo with that id and     *)
(* changes nothing else: that todo's other fields and every other todo are  *)
(* as they were, each at its place in the collection.                       *)
(***************************************************************************)
ToggleFrame ==
  [][lastOp'["op"] = "toggle"
       => /\ Len(todos') = Len(todos)
          /\ \A i \in 1..Len(todos) :
               IF todos[i]["id"] = lastOp'["id"]
               THEN /\ todos'[i]["completed"] = ~todos[i]["completed"]
                    /\ DOMAIN todos'[i] = DOMAIN todos[i]
                    /\ \A k \in DOMAIN todos[i] \ {"completed"} :
                         todos'[i][k] = todos[i][k]
               ELSE todos'[i] = todos[i]]_vars

\* a completed todo with a deadline, second of its bucket, has been toggled
\* back to incomplete
ToggleFrameWitness ==
  /\ lastOp["op"] = "toggle"
  /\ Len(todos) = 3
  /\ LET t == TodoById(todos, lastOp["id"])
     IN  /\ ~t["completed"]
         /\ Deadline(t) = Day8
         /\ t["order"] = 1

(***************************************************************************)
(* C19  edit: committing an edit whose trimmed text is not empty replaces   *)
(* the todo's title by the trimmed text and changes nothing else;           *)
(* committing one whose trimmed text is empty leaves the collection         *)
(* unchanged.                                                               *)
(***************************************************************************)
EditTitle ==
  [][lastOp'["op"] = "edit"
       => IF Trim(lastOp'["input"]) = <<>>
          THEN todos' = todos
          ELSE /\ Len(todos') = Len(todos)
               /\ \A i \in 1..Len(todos) :
                    IF todos[i]["id"] = lastOp'["id"]
                    THEN /\ todos'[i]["title"] = Trim(lastOp'["input"])
                         /\ DOMAIN todos'[i] = DOMAIN todos[i]
                         /\ \A k \in DOMAIN todos[i] \ {"title"} :
                              todos'[i][k] = todos[i][k]
                    ELSE todos'[i] = todos[i]]_vars

\* the edit "b " has been committed on a todo: its title is "b", the titles
\* of the two other todos are what they were
EditTitleWitness ==
  /\ lastOp["op"] = "edit"
  /\ lastOp["input"] = <<"b", " ">>
  /\ Len(todos) = 3
  /\ TodoById(todos, lastOp["id"])["title"] = <<"b">>
  /\ Cardinality({i \in 1..3 : todos[i]["title"] = TitleA}) = 2

(***************************************************************************)
(* C20  Id preservation (P2): for every mutation other than delete (add,    *)
(* toggle, edit, move, reorder, bulk clear, postpone) the set of todo ids   *)
(* of the collection is the same before and after.                          *)
(* Violated: an accepted add brings a new id, a bulk clear takes away the   *)
(* ids of the todos it removes.                                             *)
(***************************************************************************)
IdPreservation ==
  [][lastOp'["op"] \in {"add", "toggle", "edit", "drop", "clearUnscheduled",
                        "clearSelectedDay", "clearWeek", "postpone"}
       => Ids(todos') = Ids(todos)]_vars

\* C20 as amended: toggle, edit, move, reorder and postpone leave the set
\* of todo ids and the number of todos as they were; an add keeps every id
\* and adds at most the id of the one new todo; a bulk clear adds no id.
IdPreservationAmended ==
  [][/\ lastOp'["op"] \in {"toggle", "edit", "drop", "postpone"}
          => Ids(todos') = Ids(todos) /\ Len(todos') = Len(todos)
     /\ lastOp'["op"] = "add"
          => /\ Ids(todos) \subseteq Ids(todos')
             /\ Len(todos') <= Len(todos) + 1
             /\ \A i \in 1..Len(todos) : todos'[i]["id"] = todos[i]["id"]
     /\ lastOp'["op"] \in {"clearUnscheduled", "clearSelectedDay", "clearWeek"}
          => Ids(todos') \subseteq Ids(todos)]_vars

\* a todo has been moved to Day9 by a drop: the three ids are still there
IdPreservationWitness ==
  /\ lastOp["op"] = "drop"
  /\ lastOp["branch"] = "date"
  /\ lastOp["source"] # Day9
  /\ Deadline(TodoById(todos, lastOp["active"])) = Day9
  /\ Len(todos) = 3
  /\ Ids(todos) = {Day10[1], Day10[1] + 1, Day10[1] + 2}

(***************************************************************************)
(* C21  Write failure: when the write to the slot fails, the error is       *)
(* caught (logged, nothing is thrown on), the in-memory collection is the   *)
(* collection the handler produced, the slot keeps its content, and the     *)
(* write is not retried: the slot changes only in a step in which the       *)
(* collection is set again and the write of that step goes through; a       *)
(* render that sets no collection leaves a stale slot as it is.             *)
(***************************************************************************)
WriteFailure ==
  [][/\ lastOp'["failed"]
          => /\ lastOp'["logged"]
             /\ ~uncaught'
             /\ todos' = lastOp'["result"]
             /\ slot' = slot
     /\ slot' # slot
          => /\ lastOp'["set"]
             /\ ~lastOp'["failed"]
             /\ slot' = JSONstringify(todos')]_vars

\* the write of an add to the empty collection failed, and a key has been
\* typed since: memory holds the added todo, the slot still the empty array
WriteFailureWitness ==
  /\ lastOp["op"] = "type"
  /\ Len(todos) = 1
  /\ todos[1]["title"] = <<" ", "a">>
  /\ slot = JSONstringify(<<>>)
  /\ ~uncaught

(***************************************************************************)
(* C22  Id uniqueness: as long as no two adds have fallen into the same     *)
(* tick of the (non-decreasing) clock, no two todos of the collection have  *)
(* the same id.                                                             *)
(***************************************************************************)
IdUniqueness ==
  ~lastOp["sameTick"]
    => \A i, j \in 1..Len(todos) : i # j => todos[i]["id"] # todos[j]["id"]

\* adds in three different ticks, and deletes of a stored todo and of the
\* first added one: two todos with the ids of the two later ticks
IdUniquenessWitness ==
  /\ ~lastOp["sameTick"]
  /\ lastOp["lastAdd"] = FirstTick + 2
  /\ Len(todos) = 2
  /\ Ids(todos) = {FirstTick + 1, FirstTick + 2}

(***************************************************************************)
(* C23  Title validity: starting from an empty store, after any sequence    *)
(* of add and edit attempts, attempts with empty or whitespace-only text    *)
(* included, the title of every todo is non-empty after trimming.           *)
(***************************************************************************)
TitleValidity ==
  \A i \in 1..Len(todos) : Trim(todos[i]["title"]) # <<>>

\* two todos were added, one was renamed, and the last attempt, an edit to
\* two blanks, was turned down: both todos have a title
TitleValidityWitness ==
  /\ lastOp["op"] = "edit"
  /\ lastOp["input"] = <<" ", " ">>
  /\ ~lastOp["set"]
  /\ Len(todos) = 2
  /\ todos[1]["title"] = <<"a", " ", "b">>
  /\ todos[2]["title"] = <<" ", "a">>

(***************************************************************************)
(* C24  Target resolution: a drop whose target identifier is a bucket key   *)
(* ("unscheduled" or a date string) is handled as a move to that bucket     *)
(* and never as a same-bucket reorder, whatever ids the todos have.         *)
(* Violated: parseInt reads the year of a date string, so a drop on a day   *)
(* card is taken for a drop on the todo whose id is that year when that     *)
(* todo shares the dragged todo's bucket.                                   *)
(***************************************************************************)
TargetResolution ==
  [][(lastOp'["op"] = "drop" /\ IsBucketKey(lastOp'["over"]))
       => lastOp'["branch"] \in {"unscheduled", "date"}]_vars

(***************************************************************************)
(* C25  Reorder frame: a drop handled as a same-bucket reorder changes      *)
(* only the order field of todos of that one bucket: the collection keeps   *)
(* its todos, every todo keeps id, title, completed and deadline (so no     *)
(* move to a bucket is applied in the same drop), and every todo of         *)
(* another bucket keeps its order.                                          *)
(***************************************************************************)
ReorderFrame ==
  [][(lastOp'["op"] = "drop" /\ lastOp'["branch"] = "reorder")
       => /\ Len(todos') = Len(todos)
          /\ \A i \in 1..Len(todos) :
               /\ DOMAIN todos'[i] = DOMAIN todos[i]
               /\ \A k \in DOMAIN todos[i] \ {"order"} : todos'[i][k] = todos[i][k]
               /\ Deadline(todos[i]) # lastOp'["source"] => todos'[i] = todos[i]]_vars

\* the second todo of Day10 has been dropped on the first one and is now
\* the first; the third todo of the collection is unscheduled
ReorderFrameWitness ==
  /\ lastOp["op"] = "drop"
  /\ lastOp["branch"] = "reorder"
  /\ lastOp["over"]["kind"] = "todo"
  /\ lastOp["source"] = Day10
  /\ TodoById(todos, lastOp["active"])["order"] = 0
  /\ TodoById(todos, lastOp["over"]["id"])["order"] = 1
  /\ Len(Bucket(todos, Day10)) = 2
  /\ Len(Unscheduled(todos)) = 1

(***************************************************************************)
(* C26  Bulk clear and postpone keep I1: when every bucket is dense before  *)
(* a clear-unscheduled, clear-selected-day, clear-week or postpone          *)
(* operation, every bucket has the orders 0..n-1 afterwards.                *)
(***************************************************************************)
ClearAndPostponeKeepDense ==
  lastOp["op"] \in {"clearUnscheduled", "clearSelectedDay", "clearWeek", "postpone"}
    => Dense(todos)

\* Day8 held a completed todo between two uncompleted ones: these two have
\* been postponed to Day9 with the orders 0 and 1, the completed one has
\* the order 0 in Day8
ClearAndPostponeKeepDenseWitness ==
  /\ lastOp["op"] = "postpone"
  /\ lastOp["branch"] = "postponed"
  /\ lastOp["today"] = Day8
  /\ Len(Bucket(todos, Day9)) = 2
  /\ Len(Bucket(todos, Day8)) = 1
  /\ Bucket(todos, Day8)[1]["completed"]
  /\ Bucket(todos, Day8)[1]["order"] = 0

(***************************************************************************)
(* C27  Drop on own bucket zone: from a dense collection, a drop of a todo  *)
(* on the zone key of the bucket it is already in leaves that bucket's      *)
(* orders exactly 0..n-1.                                                   *)
(* Violated: on "unscheduled" the todo gets the number of unscheduled       *)
(* todos, itself included, on its own date the number of the other todos    *)
(* of that date, and the bucket is not renumbered.                          *)
(***************************************************************************)
OwnZoneDropDense ==
  [][(/\ lastOp'["op"] = "drop"
      /\ IsBucketKey(lastOp'["over"])
      /\ DropKey(lastOp'["over"]) = lastOp'["source"]
      /\ Dense(todos))
       => DenseBucket(todos', lastOp'["source"])]_vars

(***************************************************************************)
(* C28  Drop on a todo of another bucket: a drop of todo A on todo B, A     *)
(* and B being in different buckets, leaves the whole collection (and the   *)
(* slot) unchanged: A is neither moved into B's bucket nor reordered.       *)
(***************************************************************************)
DropOnTodoOfOtherBucket ==
  [][(/\ lastOp'["op"] = "drop"
      /\ lastOp'["over"]["kind"] = "todo"
      /\ Deadline(TodoById(todos, lastOp'["over"]["id"])) # lastOp'["source"])
       => /\ todos' = todos
          /\ slot' = slot
          /\ lastOp'["branch"] = "ignored"]_vars

\* an unscheduled todo has been dropped on the second todo of Day10: it is
\* still unscheduled, and alone there
DropOnTodoOfOtherBucketWitness ==
  /\ lastOp["op"] = "drop"
  /\ lastOp["branch"] = "ignored"
  /\ lastOp["over"]["kind"] = "todo"
  /\ lastOp["source"] = Undefined
  /\ TodoById(todos, lastOp["over"]["id"])["order"] = 1
  /\ Deadline(TodoById(todos, lastOp["over"]["id"])) = Day10
  /\ Unscheduled(todos) = <<TodoById(todos, lastOp["active"])>>

(***************************************************************************)
(* C29  Startup overwrite: when the page starts on a slot that is missing   *)
(* or holds unparsable content, the initial load completes and the slot is  *)
(* then written with the serialization of the empty collection, in place    *)
(* of what it held.                                                         *)
(***************************************************************************)
\* no item, or text that is not JSON
Unparsable(s) == s = NoItem \/ s["kind"] = "text"

StartupOverwrite ==
  (pc = "unmounted" /\ Unparsable(slot))
    ~> (/\ lastOp["op"] = "commit"
        /\ Unparsable(lastOp["replaced"])
        /\ isLoaded
        /\ slot = JSONstringify(<<>>))

\* the first write has replaced the text "corrupt-json-data" by "[]"
StartupOverwriteWitness ==
  /\ lastOp["op"] = "commit"
  /\ lastOp["replaced"] = Text("corrupt-json-data")
  /\ todos = <<>>
  /\ slot = Json(JArray(<<>>))

(***************************************************************************)
(* C30  Two tabs, no lost update: when every tab has reloaded (focus)       *)
(* before each of its mutations that follows a write by the other tab,      *)
(* the slot holds, whenever no tab is in the middle of starting, the        *)
(* stored collection with every mutation of both tabs applied in the order  *)
(* they were performed.                                                     *)
(* Violated: a tab writes back what it loaded at startup; a mutation the    *)
(* other tab made between that load and that write is overwritten.          *)
(***************************************************************************)
NoLostUpdate ==
  (lastOp["disciplined"] /\ \A t \in Tabs : pc[t] # "loaded")
    => slot = JSONstringify(lastOp["expected"])

====
